---- MODULE Spec2Model ----
(***************************************************************************)
(* Model of jax_verify/src/relaxation.py: the constraint data model        *)
(* (LinearConstraint, RelaxActivationConstraint), the per-primitive        *)
(* relaxation rules (_get_linear, _get_relu_relax, _relax_primitive) and   *)
(* the incremental OptimizedRelaxationTransform.                           *)
(*                                                                         *)
(* Numbers.  Every bound, constant and coefficient is an exact integer     *)
(* multiple of one grid unit; slopes and biases of activation constraints  *)
(* are exact fractions num/den with den > 0.  The grid unit is one third   *)
(* of the 1e-12 floor of _get_relu_relax, so that intervals both narrower  *)
(* and wider than the floor occur among the enumerated bounds.  All other  *)
(* arithmetic of the rules is scale free.                                  *)
(*                                                                         *)
(* Indices.  Sample indices, component indices and act_index are 0-based   *)
(* as in the source; the sequences that hold the data are 1-based.         *)
(***************************************************************************)
EXTENDS Integers, Sequences, FiniteSets, TLC

VARIABLES
  rcall,      \* arguments of the last _relax_primitive call
  rret,       \* its outcome: the returned RelaxVariable or the exception
  lcon,       \* a LinearConstraint object
  lret,       \* result of the last bias(index) / vars_and_coeffs(index)
  batch,      \* leading dimension of every node of the traversal
  feat,       \* number of non-batch elements of every node
  solvers,    \* OptimizedRelaxationTransform.solvers
  env,        \* the driver's environment: RelaxVariables returned so far
  nextIndex,  \* next node identifier handed out by the driver
  status,     \* "running", or the exception that ended the traversal
  last        \* bookkeeping of the last transform call

vars == <<rcall, rret, lcon, lret, batch, feat, solvers, env, nextIndex,
          status, last>>

ruleVars == <<rcall, rret>>
lcVars == <<lcon, lret>>
travVars == <<batch, feat, solvers, env, nextIndex, status, last>>

----------------------------------------------------------------------------
(* Bounds of the model *)

MaxAbs == 3
MaxFeat == 2
MaxBatch == 2
MaxNodes == 3

(* jnp.maximum(upper - lower, 1e-12), in grid units *)
Eps == 3

----------------------------------------------------------------------------
(* Exact arithmetic *)

Max2(a, b) == IF a >= b THEN a ELSE b

Abs(a) == IF a >= 0 THEN a ELSE -a

RECURSIVE SumSeq(_)
SumSeq(s) == IF s = <<>> THEN 0 ELSE Head(s) + SumSeq(Tail(s))

RECURSIVE Concat(_)
Concat(ss) == IF ss = <<>> THEN <<>> ELSE Head(ss) \o Concat(Tail(ss))

Frac(n, d) == [num |-> n, den |-> d]

FracAdd(a, b) == [num |-> a.num * b.den + b.num * a.den, den |-> a.den * b.den]

FracEq(a, b) == a.num * b.den = b.num * a.den

(* scale * x + bias (sense) out, with sense 1: out >= , -1: out <= , 0: out = *)
ActivationHolds(out, x, scale, bias, sense) ==
  LET lhs == out * scale.den * bias.den
      rhs == scale.num * x * bias.den + bias.num * scale.den
  IN CASE sense = 1 -> lhs >= rhs
       [] sense = -1 -> lhs <= rhs
       [] OTHER -> lhs = rhs

----------------------------------------------------------------------------
(* Arrays.  A bound tensor of shape (batch, features) is a sequence of     *)
(* rows.  The arrays held by a LinearConstraint are kept with their shape, *)
(* because the class inspects it.                                          *)

Rows(t) == Len(t)
Cols(t) == Len(t[1])

Full(rows, cols, v) == [r \in 1..rows |-> [c \in 1..cols |-> v]]

zeros_like(t) == [r \in 1..Rows(t) |-> [c \in 1..Cols(t) |-> Frac(0, 1)]]
ones_like(t) == [r \in 1..Rows(t) |-> [c \in 1..Cols(t) |-> Frac(1, 1)]]

(* row-major flattening of a tensor *)
Ravel(t) == Concat(t)

NdScalar(v) == [shape |-> <<>>, flat |-> <<v>>]
NdVector(s) == [shape |-> <<Len(s)>>, flat |-> s]
NdMatrix(t) == [shape |-> <<Rows(t), Cols(t)>>, flat |-> Ravel(t)]

RECURSIVE Prod(_)
Prod(s) == IF s = <<>> THEN 1 ELSE Head(s) * Prod(Tail(s))

IndexError == [shape |-> <<-1>>, flat |-> <<>>]

(* a[index] of a numpy array; indexing a 0-d array or past the first       *)
(* dimension fails                                                         *)
NdIndex(a, index) ==
  IF a.shape = <<>> \/ a.shape[1] <= index
  THEN IndexError
  ELSE LET stride == Prod(Tail(a.shape))
       IN [shape |-> Tail(a.shape),
           flat |-> SubSeq(a.flat, index * stride + 1, (index + 1) * stride)]

----------------------------------------------------------------------------
(* class RelaxVariable, and the other kind of argument: a constant tensor  *)

NoBound == <<>>

RelaxVariable(name, base_bound) ==
  [kind |-> "RelaxVariable", name |-> name,
   lower |-> base_bound.lower, upper |-> base_bound.upper,
   constraints |-> <<>>, value |-> NoBound]

TensorArg(value) ==
  [kind |-> "Tensor", name |-> -1, lower |-> NoBound, upper |-> NoBound,
   constraints |-> <<>>, value |-> value]

IsRelaxVariable(x) == x.kind = "RelaxVariable"

set_constraints(variable, constraints) ==
  [variable EXCEPT !.constraints = constraints]

----------------------------------------------------------------------------
(* class LinearConstraint *)

LinearConstraint(vars_and_coeffs, bias, sense) ==
  [type |-> "LinearConstraint", vars_and_coeffs |-> vars_and_coeffs,
   bias |-> bias, sense |-> sense, sample_dependent |-> bias.shape # <<>>]

LinearConstraint_bias(self, index) ==
  IF self.sample_dependent THEN NdIndex(self.bias, index) ELSE self.bias

LinearConstraint_vars_and_coeffs(self, index) ==
  IF self.sample_dependent
  THEN [k \in 1..Len(self.vars_and_coeffs) |->
          [var |-> self.vars_and_coeffs[k].var,
           cpts |-> self.vars_and_coeffs[k].cpts,
           coeffs |-> NdIndex(self.vars_and_coeffs[k].coeffs, index)]]
  ELSE self.vars_and_coeffs

(* class RelaxActivationConstraint: outvar (sense) scale * invar + bias *)
RelaxActivationConstraint(outvar, invar, scale, bias, sense) ==
  [type |-> "RelaxActivationConstraint", outvar |-> outvar.name,
   invar |-> invar.name, scale |-> scale, bias |-> bias, sense |-> sense]

----------------------------------------------------------------------------
(* _get_relu_relax *)

(* a strict comparison in place of lower >= 0 *)
OnStrict(lower) == lower > 0

On(lower) == lower >= 0

Amb(lower, upper) == lower < 0 /\ upper > 0

ReluDenominator(lower, upper) == Max2(upper - lower, Eps)

ReluSlope(lower, upper) ==
  FracAdd(IF On(lower) THEN Frac(1, 1) ELSE Frac(0, 1),
          IF Amb(lower, upper)
          THEN Frac(upper, ReluDenominator(lower, upper))
          ELSE Frac(0, 1))

ReluBias(lower, upper) ==
  IF Amb(lower, upper)
  THEN Frac(-lower * upper, ReluDenominator(lower, upper))
  ELSE Frac(0, 1)

_get_relu_relax(lower, upper) ==
  [slope |-> [r \in 1..Rows(lower) |-> [c \in 1..Cols(lower) |->
                ReluSlope(lower[r][c], upper[r][c])]],
   bias |-> [r \in 1..Rows(lower) |-> [c \in 1..Cols(lower) |->
                ReluBias(lower[r][c], upper[r][c])]]]

----------------------------------------------------------------------------
(* The primitives.  primitive.bind on its arguments, on the shapes the     *)
(* rules see in _get_linear: every argument is a tensor with a leading     *)
(* dimension of one (a RelaxVariable is replaced by zeros of one sample,   *)
(* a constant is the same for every sample); the weight matrix of          *)
(* dot_general has shape (inputs, outputs).  params is the number of       *)
(* output elements of broadcast_in_dim and is not read by the others.      *)

_passthrough_list == {"reshape"}

_affine_primitives_list ==
  {"broadcast_in_dim", "add", "conv_general_dilated", "dot_general", "sub",
   "mul"}

_activation_list == {"max"}

Bind(primitive, a, params) ==
  CASE primitive = "add" ->
         <<[c \in 1..Cols(a[1]) |-> a[1][1][c] + a[2][1][c]]>>
    [] primitive = "sub" ->
         <<[c \in 1..Cols(a[1]) |-> a[1][1][c] - a[2][1][c]]>>
    [] primitive = "mul" ->
         <<[c \in 1..Cols(a[1]) |-> a[1][1][c] * a[2][1][c]]>>
    [] primitive = "broadcast_in_dim" ->
         <<[c \in 1..params |-> a[1][1][1]]>>
    [] primitive = "dot_general" ->
         <<[g \in 1..Cols(a[2]) |->
              SumSeq([f \in 1..Rows(a[2]) |-> a[1][1][f] * a[2][f][g]])]>>
    [] primitive = "conv_general_dilated" ->
         <<[j \in 1..(Cols(a[1]) - Cols(a[2]) + 1) |->
              SumSeq([t \in 1..Cols(a[2]) |-> a[1][1][j + t - 1] * a[2][1][t]])]>>
    [] primitive = "reshape" -> a[1]
    [] OTHER -> a[1]

----------------------------------------------------------------------------
(* _get_linear.  jax.value_and_grad of output component i at the point     *)
(* where every RelaxVariable is zero: every primitive above is linear in   *)
(* each argument separately, so the partial derivative with respect to one *)
(* element is the change of the output under a unit step of that element.  *)

funx(x) ==
  IF IsRelaxVariable(x) THEN Full(1, Cols(x.lower), 0) ELSE x.value

fungrad(primitive, params, i, args) == Bind(primitive, args, params)[1][i + 1]

value_and_grad(primitive, params, i, args) ==
  LET value == fungrad(primitive, params, i, args)
  IN [value |-> value,
      grad |-> [k \in 1..Len(args) |->
                  [r \in 1..Rows(args[k]) |-> [c \in 1..Cols(args[k]) |->
                     fungrad(primitive, params, i,
                             [args EXCEPT ![k][r][c] = @ + 1]) - value]]]]

RECURSIVE FlatNonZeroFrom(_, _)
FlatNonZeroFrom(flat, j) ==
  IF j > Len(flat) THEN <<>>
  ELSE (IF flat[j] # 0 THEN <<j - 1>> ELSE <<>>) \o FlatNonZeroFrom(flat, j + 1)

flatnonzero(res) == FlatNonZeroFrom(Ravel(res), 1)

_get_linear(primitive, outsize, eqn_invars, params) ==
  [n \in 1..outsize |->
     LET vg == value_and_grad(primitive, params, n - 1,
                              [k \in 1..Len(eqn_invars) |-> funx(eqn_invars[k])])
     IN [bias |-> NdScalar(vg.value),
         coefficients |->
           [k \in 1..Len(eqn_invars) |->
              LET components == flatnonzero(vg.grad[k])
              IN [cpts |-> components,
                  coeffs |-> NdVector([j \in 1..Len(components) |->
                               Ravel(vg.grad[k])[components[j] + 1]])]]]]

----------------------------------------------------------------------------
(* _relax_primitive.  The result is the returned RelaxVariable, or the     *)
(* exception that leaves the function.                                     *)

NoVariable ==
  [kind |-> "None", name |-> -1, lower |-> NoBound, upper |-> NoBound,
   constraints |-> <<>>, value |-> NoBound]

Returns(variable) == [outcome |-> "ok", var |-> variable]

Raises(exception) == [outcome |-> exception, var |-> NoVariable]

PassthroughConstraints(out_variable, args) ==
  LET invar == args[1]
  IN <<RelaxActivationConstraint(out_variable, invar, ones_like(invar.lower),
                                 zeros_like(invar.lower), 0)>>

AffineConstraints(out_variable, out_bounds, primitive, args, params) ==
  LET results == _get_linear(primitive, Cols(out_bounds.lower), args, params)
  IN [n \in 1..Len(results) |->
        LET zipped == [k \in 1..Len(args) |->
                         [var |-> args[k].name, kind |-> args[k].kind,
                          cpts |-> results[n].coefficients[k].cpts,
                          coeffs |-> results[n].coefficients[k].coeffs]]
            kept == SelectSeq(zipped, LAMBDA z : z.kind = "RelaxVariable")
            vars_and_coeffs ==
              [k \in 1..Len(kept) |->
                 [var |-> kept[k].var, cpts |-> kept[k].cpts,
                  coeffs |-> kept[k].coeffs]]
            out_coeff == [var |-> out_variable.name, cpts |-> <<n - 1>>,
                          coeffs |-> NdVector(<<-1>>)]
        IN LinearConstraint(Append(vars_and_coeffs, out_coeff),
                            results[n].bias, 0)]

(* jnp.amax(jnp.abs(x)) != 0. : jnp.abs of an object that is no array      *)
(* (a RelaxVariable) raises TypeError                                      *)
NonZeroCheck(x) ==
  IF IsRelaxVariable(x) THEN "TypeError"
  ELSE IF \E r \in 1..Rows(x.value) : \E c \in 1..Cols(x.value) :
            Abs(x.value[r][c]) # 0
       THEN "NotImplementedError"
       ELSE "ok"

ReluConstraints(out_variable, invar) ==
  LET relax == _get_relu_relax(invar.lower, invar.upper)
  IN <<RelaxActivationConstraint(out_variable, invar, zeros_like(invar.lower),
                                 zeros_like(invar.lower), 1),
       RelaxActivationConstraint(out_variable, invar, ones_like(invar.lower),
                                 zeros_like(invar.lower), 1),
       RelaxActivationConstraint(out_variable, invar, relax.slope,
                                 relax.bias, -1)>>

ActivationRule(out_variable, args) ==
  IF Len(args) = 2
  THEN IF IsRelaxVariable(args[1])
       THEN IF NonZeroCheck(args[2]) # "ok"
            THEN Raises(NonZeroCheck(args[2]))
            ELSE Returns(set_constraints(out_variable,
                                         ReluConstraints(out_variable, args[1])))
       ELSE IF IsRelaxVariable(args[2])
       THEN IF NonZeroCheck(args[1]) # "ok"
            THEN Raises(NonZeroCheck(args[1]))
            ELSE Returns(set_constraints(out_variable,
                                         ReluConstraints(out_variable, args[2])))
       ELSE Raises("NotImplementedError")
  ELSE Raises("NotImplementedError")

OtherRule(out_variable) == Returns(set_constraints(out_variable, <<>>))

_relax_primitive(index, out_bounds, primitive, args, params) ==
  LET out_variable == RelaxVariable(index, out_bounds)
  IN IF primitive \in _passthrough_list
     THEN IF IsRelaxVariable(args[1])
          THEN Returns(set_constraints(out_variable,
                                       PassthroughConstraints(out_variable, args)))
          ELSE Raises("AttributeError")
     ELSE IF primitive \in _affine_primitives_list
     THEN Returns(set_constraints(out_variable,
                    AffineConstraints(out_variable, out_bounds, primitive,
                                      args, params)))
     ELSE IF primitive \in _activation_list
     THEN ActivationRule(out_variable, args)
     ELSE OtherRule(out_variable)

----------------------------------------------------------------------------
(* Inputs of the rule calls *)

BoundVals == (-MaxAbs)..MaxAbs

ConstVals == {-1, 0, 2}

(* a bound of shape (b, n) whose elements differ by sample and by feature *)
BoundOf(b, n, lo, hi) ==
  [lower |-> [s \in 1..b |-> [f \in 1..n |-> lo - (s - 1)]],
   upper |-> [s \in 1..b |-> [f \in 1..n |-> hi + (f - 1)]]]

ValidBounds(b, n) ==
  {BoundOf(b, n, p[1], p[2]) :
     p \in {q \in BoundVals \X BoundVals : q[1] <= q[2]}}

WideBound(b, n) == BoundOf(b, n, -MaxAbs, MaxAbs)

ConstTensors(n) == {<<v>> : v \in [1..n -> ConstVals]}

WeightMatrices(n, m) ==
  {[f \in 1..n |-> [g \in 1..m |-> IF f = g THEN d ELSE o]] :
     d \in ConstVals, o \in ConstVals}

Call(index, out_bounds, primitive, args, params) ==
  [index |-> index, out_bounds |-> out_bounds, primitive |-> primitive,
   args |-> args, params |-> params]

PassthroughCalls ==
  UNION {
    {Call(1, WideBound(b, n), "reshape", <<RelaxVariable(0, bd)>>, 0) :
       bd \in ValidBounds(b, n)}
    : b \in 1..MaxBatch, n \in 1..MaxFeat}

ElementwiseCalls ==
  UNION {
    {Call(2, WideBound(b, n), p,
          <<RelaxVariable(0, WideBound(b, n)), TensorArg(c)>>, 0) :
       c \in ConstTensors(n)}
    \cup
    {Call(2, WideBound(b, n), p,
          <<TensorArg(c), RelaxVariable(0, WideBound(b, n))>>, 0) :
       c \in ConstTensors(n)}
    \cup
    {Call(2, WideBound(b, n), p,
          <<RelaxVariable(0, WideBound(b, n)),
            RelaxVariable(1, WideBound(b, n))>>, 0)}
    : b \in 1..MaxBatch, n \in 1..MaxFeat, p \in {"add", "sub", "mul"}}

DotCalls ==
  UNION {
    {Call(1, WideBound(b, m), "dot_general",
          <<RelaxVariable(0, WideBound(b, n)), TensorArg(w)>>, 0) :
       w \in WeightMatrices(n, m)}
    : b \in 1..MaxBatch, n \in 1..MaxFeat, m \in 1..MaxFeat}

ConvCalls ==
  UNION {
    {Call(1, WideBound(b, n - k + 1), "conv_general_dilated",
          <<RelaxVariable(0, WideBound(b, n)), TensorArg(c)>>, 0) :
       c \in ConstTensors(k)}
    : <<b, n, k>> \in {t \in (1..MaxBatch) \X (1..MaxFeat) \X (1..MaxFeat) :
                         t[3] <= t[2]}}

BroadcastCalls ==
  {Call(1, WideBound(b, n), "broadcast_in_dim",
        <<RelaxVariable(0, WideBound(b, 1))>>, n) :
     b \in 1..MaxBatch, n \in 1..MaxFeat}

AffineCalls ==
  ElementwiseCalls \cup DotCalls \cup ConvCalls \cup BroadcastCalls

ActivationCalls ==
  UNION {
    UNION {
      {Call(2, WideBound(b, n), "max",
            <<RelaxVariable(0, bd), TensorArg(c)>>, 0) : c \in ConstTensors(n)}
      \cup
      {Call(2, WideBound(b, n), "max",
            <<TensorArg(c), RelaxVariable(0, bd)>>, 0) : c \in ConstTensors(n)}
      \cup
      {Call(2, WideBound(b, n), "max",
            <<RelaxVariable(0, bd), RelaxVariable(1, bd)>>, 0),
       Call(2, WideBound(b, n), "max",
            <<TensorArg(Full(1, n, 0)), TensorArg(Full(1, n, 0))>>, 0),
       Call(2, WideBound(b, n), "max",
            <<RelaxVariable(0, bd), TensorArg(Full(1, n, 0)),
              TensorArg(Full(1, n, 0))>>, 0),
       Call(2, WideBound(b, n), "max", <<RelaxVariable(0, bd)>>, 0)}
      : bd \in ValidBounds(b, n)}
    : b \in 1..MaxBatch, n \in 1..MaxFeat}

OtherPrimitives == {"tanh", "exp"}

OtherCalls ==
  {Call(1, WideBound(b, n), p, <<RelaxVariable(0, WideBound(b, n))>>, 0) :
     b \in 1..MaxBatch, n \in 1..MaxFeat, p \in OtherPrimitives}

RuleCalls == PassthroughCalls \cup AffineCalls \cup ActivationCalls \cup OtherCalls

NotCalled == [outcome |-> "not called", var |-> NoVariable]

NoCall == Call(-1, NoBound, "none", <<>>, 0)

----------------------------------------------------------------------------
(* Values of the variables a specification does not use *)

NoConstraint == LinearConstraint(<<>>, NdScalar(0), 0)

NoResult == [op |-> "none", index |-> -1, bias |-> IndexError, vars_and_coeffs |-> <<>>]

NoLast == [op |-> "none"]

IdleRule == rcall = NoCall /\ rret = NotCalled

IdleLC == lcon = NoConstraint /\ lret = NoResult

IdleTraversal ==
  /\ batch = 0 /\ feat = 0 /\ solvers = <<>> /\ env = <<>>
  /\ nextIndex = 0 /\ status = "idle" /\ last = NoLast

----------------------------------------------------------------------------
(* Specification of the relaxation rules: one call of _relax_primitive on  *)
(* each of the enumerated argument lists.                                  *)

InitRelax == rcall \in RuleCalls /\ rret = NotCalled /\ IdleLC /\ IdleTraversal

RelaxPrimitive ==
  /\ rret = NotCalled
  /\ rret' = _relax_primitive(rcall.index, rcall.out_bounds, rcall.primitive,
                              rcall.args, rcall.params)
  /\ UNCHANGED <<rcall, lcVars, travVars>>

NextRelax == RelaxPrimitive

SpecRelax == InitRelax /\ [][NextRelax]_vars

Called == rret.outcome # "not called"

Supported == _passthrough_list \cup _affine_primitives_list \cup _activation_list

AllZero(t) == \A r \in 1..Rows(t) : \A c \in 1..Cols(t) : t[r][c] = 0

OneVariableAndZero(args) ==
  /\ Len(args) = 2
  /\ \/ IsRelaxVariable(args[1]) /\ ~IsRelaxVariable(args[2]) /\ AllZero(args[2].value)
     \/ IsRelaxVariable(args[2]) /\ ~IsRelaxVariable(args[1]) /\ AllZero(args[1].value)

ReluBuilt == Called /\ rcall.primitive \in _activation_list /\ rret.outcome = "ok"

ReluInvar ==
  IF IsRelaxVariable(rcall.args[1]) THEN rcall.args[1] ELSE rcall.args[2]

(* C1: every primitive outside the passthrough, affine and activation      *)
(* groups is rejected by _relax_primitive with NotImplementedError, and no *)
(* RelaxVariable is returned for it.                                       *)
C1_UnsupportedRejected ==
  (Called /\ rcall.primitive \notin Supported) =>
    (rret.outcome = "NotImplementedError" /\ rret.var = NoVariable)

(* C2: for the max primitive, _relax_primitive builds the three ReLU       *)
(* constraints exactly when one operand is a RelaxVariable and the other   *)
(* the all-zero constant; in every other case (no variable, two variables, *)
(* a non-zero constant, not two arguments) it raises NotImplementedError   *)
(* and returns no constraints.                                             *)
C2_ActivationRejects ==
  (Called /\ rcall.primitive \in _activation_list) =>
    IF OneVariableAndZero(rcall.args)
    THEN rret.outcome = "ok" /\ Len(rret.var.constraints) = 3
    ELSE rret.outcome = "NotImplementedError" /\ rret.var = NoVariable

(* C3: for every element bound lower <= upper of the ReLU input, the three *)
(* constraints out >= 0, out >= in, out <= slope * in + bias hold at       *)
(* out = max(x, 0) for every x in [lower, upper], and when lower < 0 <     *)
(* upper the third holds with equality at x = lower and at x = upper.      *)
C3_ReluSoundAndTight ==
  ReluBuilt =>
    LET cons == rret.var.constraints
        invar == ReluInvar
    IN /\ Len(cons) = 3
       /\ cons[1].sense = 1 /\ cons[2].sense = 1 /\ cons[3].sense = -1
       /\ \A s \in 1..Rows(invar.lower) : \A f \in 1..Cols(invar.lower) :
            LET l == invar.lower[s][f]
                u == invar.upper[s][f]
            IN /\ FracEq(cons[1].scale[s][f], Frac(0, 1))
               /\ FracEq(cons[1].bias[s][f], Frac(0, 1))
               /\ FracEq(cons[2].scale[s][f], Frac(1, 1))
               /\ FracEq(cons[2].bias[s][f], Frac(0, 1))
               /\ \A x \in l..u : \A k \in 1..3 :
                    ActivationHolds(Max2(x, 0), x, cons[k].scale[s][f],
                                    cons[k].bias[s][f], cons[k].sense)
               /\ (l < 0 /\ u > 0) =>
                    \A x \in {l, u} :
                      ActivationHolds(Max2(x, 0), x, cons[3].scale[s][f],
                                      cons[3].bias[s][f], 0)

(* The same, for the element bounds that are at least as wide as the floor *)
(* of the denominator, or that do not straddle zero.                       *)
ReluSoundWhenWide ==
  ReluBuilt =>
    LET cons == rret.var.constraints
        invar == ReluInvar
    IN \A s \in 1..Rows(invar.lower) : \A f \in 1..Cols(invar.lower) :
         LET l == invar.lower[s][f]
             u == invar.upper[s][f]
         IN (u - l >= Eps \/ ~(l < 0 /\ u > 0)) =>
              /\ \A x \in l..u : \A k \in 1..3 :
                   ActivationHolds(Max2(x, 0), x, cons[k].scale[s][f],
                                   cons[k].bias[s][f], cons[k].sense)
              /\ (l < 0 /\ u > 0) =>
                   \A x \in {l, u} :
                     ActivationHolds(Max2(x, 0), x, cons[3].scale[s][f],
                                     cons[3].bias[s][f], 0)

(* C4 as claimed: upper <= 0 gives slope 0 and bias 0, also at             *)
(* lower = upper = 0; lower >= 0 gives slope 1 and bias 0 elsewhere.       *)
C4_BoundaryInactive ==
  ReluBuilt =>
    LET upperChord == rret.var.constraints[3]
        invar == ReluInvar
    IN \A s \in 1..Rows(invar.lower) : \A f \in 1..Cols(invar.lower) :
         LET l == invar.lower[s][f]
             u == invar.upper[s][f]
         IN /\ u <= 0 => /\ FracEq(upperChord.scale[s][f], Frac(0, 1))
                         /\ FracEq(upperChord.bias[s][f], Frac(0, 1))
            /\ (l >= 0 /\ u > 0) => /\ FracEq(upperChord.scale[s][f], Frac(1, 1))
                                    /\ FracEq(upperChord.bias[s][f], Frac(0, 1))

(* C4 amended: lower >= 0 gives slope 1 and bias 0, also at                *)
(* lower = upper = 0 (the active regime); upper <= 0 with lower < 0 gives  *)
(* slope 0 and bias 0.                                                     *)
C4_BoundaryActive ==
  ReluBuilt =>
    LET upperChord == rret.var.constraints[3]
        invar == ReluInvar
    IN \A s \in 1..Rows(invar.lower) : \A f \in 1..Cols(invar.lower) :
         LET l == invar.lower[s][f]
             u == invar.upper[s][f]
         IN /\ l >= 0 => /\ FracEq(upperChord.scale[s][f], Frac(1, 1))
                         /\ FracEq(upperChord.bias[s][f], Frac(0, 1))
            /\ (u <= 0 /\ l < 0) => /\ FracEq(upperChord.scale[s][f], Frac(0, 1))
                                    /\ FracEq(upperChord.bias[s][f], Frac(0, 1))

C4_Witness ==
  /\ ReluBuilt
  /\ ReluInvar.lower[1][1] = 0 /\ ReluInvar.upper[1][1] = 0
  /\ FracEq(rret.var.constraints[3].scale[1][1], Frac(1, 1))
  /\ \E s \in 1..Rows(ReluInvar.lower) :
       /\ ReluInvar.lower[s][1] < 0 /\ ReluInvar.upper[s][1] = 0
       /\ FracEq(rret.var.constraints[3].scale[s][1], Frac(0, 1))

MaxTrue == 1

TrueVals == (-MaxTrue)..MaxTrue

(* sum of coeff * variable[component] + bias of a LinearConstraint for the *)
(* sample index, the variables taking the values val[name]                 *)
LinearValue(constraint, index, val) ==
  LET refs == LinearConstraint_vars_and_coeffs(constraint, index)
  IN SumSeq([k \in 1..Len(refs) |->
               SumSeq([j \in 1..Len(refs[k].cpts) |->
                         refs[k].coeffs.flat[j] * val[refs[k].var][refs[k].cpts[j] + 1]])])
     + LinearConstraint_bias(constraint, index).flat[1]

AffineBuilt == Called /\ rcall.primitive \in _affine_primitives_list /\ rret.outcome = "ok"

(* C5: for an affine primitive and every mix of variable and constant      *)
(* arguments there is one equality LinearConstraint per output component   *)
(* i, with coefficient -1 on output component i, and it evaluates to zero  *)
(* when the inputs take any values and the output the primitive's value.   *)
C5_AffineExact ==
  AffineBuilt =>
    LET cons == rret.var.constraints
        args == rcall.args
        outsize == Cols(rcall.out_bounds.lower)
    IN /\ Len(cons) = outsize
       /\ \A n \in 1..outsize :
            LET refs == cons[n].vars_and_coeffs
            IN /\ cons[n].type = "LinearConstraint" /\ cons[n].sense = 0
               /\ refs[Len(refs)].var = rcall.index
               /\ refs[Len(refs)].cpts = <<n - 1>>
               /\ refs[Len(refs)].coeffs = NdVector(<<-1>>)
       /\ \A inputs \in [0..1 -> [1..MaxFeat -> TrueVals]] :
            LET concrete == [k \in 1..Len(args) |->
                               IF IsRelaxVariable(args[k])
                               THEN <<[c \in 1..Cols(args[k].lower) |->
                                         inputs[args[k].name][c]]>>
                               ELSE args[k].value]
                output == Bind(rcall.primitive, concrete, rcall.params)[1]
                val == [name \in 0..rcall.index |->
                          IF name = rcall.index THEN output ELSE inputs[name]]
            IN \A n \in 1..outsize :
                 \A index \in 0..(Rows(rcall.out_bounds.lower) - 1) :
                   LinearValue(cons[n], index, val) = 0

(* The same, when at most one argument of the primitive is a variable or   *)
(* the primitive is add or sub.                                            *)
AffineExactWhenLinear ==
  (/\ AffineBuilt
   /\ \/ rcall.primitive \in {"add", "sub"}
      \/ Cardinality({k \in 1..Len(rcall.args) : IsRelaxVariable(rcall.args[k])}) <= 1)
  => C5_AffineExact

----------------------------------------------------------------------------
(* Specification of the LinearConstraint class: a constraint object over   *)
(* one or two variable references whose bias and coefficient arrays are    *)
(* each either shared by the samples or given per sample, and the calls of *)
(* its two accessors.                                                      *)

MaxCpts == 2

Biases(b) ==
  {NdScalar(v) : v \in {0, 1}} \cup {NdVector([s \in 1..b |-> 10 * s + v]) : v \in {0, 1}}

(* the coefficients of k components: one row, or one row per sample *)
CoeffArrays(b, k) ==
  {NdVector([j \in 1..k |-> v + j]) : v \in {0, 3}}
  \cup {NdMatrix([s \in 1..b |-> [j \in 1..k |-> 10 * s + v + j]]) : v \in {0, 3}}

VarRefs(b, name) ==
  UNION {{[var |-> name, cpts |-> [j \in 1..k |-> j - 1], coeffs |-> a] :
            a \in CoeffArrays(b, k)} : k \in 1..MaxCpts}

Constraints(b) ==
  {LinearConstraint(<<r>>, bias, 0) : r \in VarRefs(b, 0), bias \in Biases(b)}
  \cup {LinearConstraint(<<r1, r2>>, bias, 0) :
          r1 \in VarRefs(b, 0), r2 \in VarRefs(b, 1), bias \in Biases(b)}

InitLC ==
  /\ batch \in 1..MaxBatch
  /\ lcon \in Constraints(batch)
  /\ lret = NoResult
  /\ IdleRule
  /\ feat = 0 /\ solvers = <<>> /\ env = <<>> /\ nextIndex = 0
  /\ status = "idle" /\ last = NoLast

CallBias ==
  \E index \in 0..(batch - 1) :
    /\ lret' = [op |-> "bias", index |-> index,
                bias |-> LinearConstraint_bias(lcon, index),
                vars_and_coeffs |-> <<>>]
    /\ UNCHANGED <<lcon, ruleVars, travVars>>

CallVarsAndCoeffs ==
  \E index \in 0..(batch - 1) :
    /\ lret' = [op |-> "vars_and_coeffs", index |-> index, bias |-> IndexError,
                vars_and_coeffs |-> LinearConstraint_vars_and_coeffs(lcon, index)]
    /\ UNCHANGED <<lcon, ruleVars, travVars>>

NextLC == CallBias \/ CallVarsAndCoeffs

SpecLC == InitLC /\ [][NextLC]_vars

(* a coefficient array with one more dimension than its component indices  *)
(* carries a leading batch dimension                                       *)
HasBatchDimension(ref) == Len(ref.coeffs.shape) = 2

(* C10: vars_and_coeffs(index) returns coeffs[index] for a variable        *)
(* reference exactly when that reference's coefficient array carries a     *)
(* leading batch dimension, and the array unchanged otherwise, whatever    *)
(* the shape of the bias; bias(index) returns bias[index] exactly when the *)
(* bias carries a batch dimension.                                         *)
C10_ResolvedPerReference ==
  /\ lret.op = "vars_and_coeffs" =>
       /\ Len(lret.vars_and_coeffs) = Len(lcon.vars_and_coeffs)
       /\ \A k \in 1..Len(lcon.vars_and_coeffs) :
            LET ref == lcon.vars_and_coeffs[k]
            IN /\ lret.vars_and_coeffs[k].var = ref.var
               /\ lret.vars_and_coeffs[k].cpts = ref.cpts
               /\ lret.vars_and_coeffs[k].coeffs =
                    IF HasBatchDimension(ref)
                    THEN NdIndex(ref.coeffs, lret.index)
                    ELSE ref.coeffs
  /\ lret.op = "bias" =>
       lret.bias = IF lcon.bias.shape # <<>>
                   THEN NdIndex(lcon.bias, lret.index)
                   ELSE lcon.bias

(* What the class does: the shape of the bias alone decides whether the    *)
(* bias and every coefficient array are indexed by the sample.             *)
ResolvedByBiasShape ==
  /\ lret.op = "vars_and_coeffs" =>
       \A k \in 1..Len(lcon.vars_and_coeffs) :
         lret.vars_and_coeffs[k].coeffs =
           IF lcon.bias.shape # <<>>
           THEN NdIndex(lcon.vars_and_coeffs[k].coeffs, lret.index)
           ELSE lcon.vars_and_coeffs[k].coeffs
  /\ lret.op = "bias" =>
       lret.bias = IF lcon.bias.shape # <<>>
                   THEN NdIndex(lcon.bias, lret.index)
                   ELSE lcon.bias

----------------------------------------------------------------------------
(* class RelaxationSolver (abstract).  A solver instance is the sequence   *)
(* of the calls made on it.  create_solver_variable declares the variable  *)
(* of one sample, bounded by that sample's row of the bound.               *)

solver_ctor == [calls |-> <<>>]

create_solver_variable(solver, relax_var, index) ==
  [solver EXCEPT !.calls =
     Append(@, [op |-> "create_solver_variable", name |-> relax_var.name,
                index |-> index, lower |-> relax_var.lower[index + 1],
                upper |-> relax_var.upper[index + 1]])]

create_linear_solver_constraint(solver, constraint, index) ==
  [solver EXCEPT !.calls =
     Append(@, [op |-> "create_linear_solver_constraint",
                constraint |-> constraint, index |-> index])]

create_activation_solver_constraint(solver, constraint, act_index, slope, bias) ==
  [solver EXCEPT !.calls =
     Append(@, [op |-> "create_activation_solver_constraint",
                outvar |-> constraint.outvar, invar |-> constraint.invar,
                sense |-> constraint.sense, act_index |-> act_index,
                slope |-> slope, bias |-> bias])]

(* LinearConstraint.encode_into_solver *)
LinearConstraint_encode_into_solver(self, solver, index) ==
  create_linear_solver_constraint(solver, self, index)

(* RelaxActivationConstraint.encode_into_solver: one call per element of   *)
(* the sample's row of scale and bias                                      *)
RECURSIVE ActivationEncodeFrom(_, _, _, _, _)
ActivationEncodeFrom(self, solver, slopes, biases, act_index) ==
  IF act_index >= Len(slopes) THEN solver
  ELSE ActivationEncodeFrom(self,
         create_activation_solver_constraint(solver, self, act_index,
           slopes[act_index + 1], biases[act_index + 1]),
         slopes, biases, act_index + 1)

RelaxActivationConstraint_encode_into_solver(self, solver, index) ==
  ActivationEncodeFrom(self, solver, self.scale[index + 1],
                       self.bias[index + 1], 0)

encode_into_solver(constraint, solver, index) ==
  IF constraint.type = "LinearConstraint"
  THEN LinearConstraint_encode_into_solver(constraint, solver, index)
  ELSE RelaxActivationConstraint_encode_into_solver(constraint, solver, index)

(* The box a solver holds for a variable: that of its latest declaration   *)
DeclarationsOf(solver, var_name) ==
  SelectSeq(solver.calls,
            LAMBDA c : c.op = "create_solver_variable" /\ c.name = var_name)

(* minimize_objective.  A solve that reports an optimum returns the        *)
(* minimum of the objective over the points that satisfy the declared box  *)
(* of the variable and the declared constraints; answer.shrink says how    *)
(* far the constraints pull each end of the box inwards.  The solve        *)
(* numbered answer.failAt of a transform call reports no optimum.          *)
FeasibleRange(solver, var_name, answer) ==
  LET decls == DeclarationsOf(solver, var_name)
      box == decls[Len(decls)]
      lo == [t \in 1..Len(box.lower) |->
               IF box.lower[t] + answer.shrink <= box.upper[t]
               THEN box.lower[t] + answer.shrink ELSE box.upper[t]]
  IN [lo |-> lo,
      hi |-> [t \in 1..Len(box.upper) |->
                Max2(box.upper[t] - answer.shrink, lo[t])]]

minimize_objective(solver, var_name, objective, objective_bias, answer, solveNo) ==
  IF DeclarationsOf(solver, var_name) = <<>> \/ solveNo = answer.failAt
  THEN [val |-> 0, optimal |-> FALSE]
  ELSE LET range == FeasibleRange(solver, var_name, answer)
       IN [val |-> SumSeq([t \in 1..Len(objective) |->
                             IF objective[t] >= 0
                             THEN objective[t] * range.lo[t]
                             ELSE objective[t] * range.hi[t]]) + objective_bias,
           optimal |-> TRUE]

MinimizeCall(var_name, objective) ==
  [op |-> "minimize_objective", var_name |-> var_name,
   objective |-> objective, objective_bias |-> 0, time_limit |-> 0]

----------------------------------------------------------------------------
(* The bound-propagation collaborator (interval bound propagation) that    *)
(* RelaxationTransform wraps: the interval of the primitive's output from  *)
(* the intervals of its arguments; a constant is the same for every sample *)

IntervalBound(lower, upper) == [lower |-> lower, upper |-> upper]

ArgLower(arg, s, f) == IF IsRelaxVariable(arg) THEN arg.lower[s][f] ELSE arg.value[1][f]

ArgUpper(arg, s, f) == IF IsRelaxVariable(arg) THEN arg.upper[s][f] ELSE arg.value[1][f]

boundprop_input_transform(index, lower_bound, upper_bound) ==
  IntervalBound(lower_bound, upper_bound)

boundprop_primitive_transform(index, primitive, args, rows, cols) ==
  CASE primitive = "add" ->
         IntervalBound(
           [s \in 1..rows |-> [f \in 1..cols |->
              ArgLower(args[1], s, f) + ArgLower(args[2], s, f)]],
           [s \in 1..rows |-> [f \in 1..cols |->
              ArgUpper(args[1], s, f) + ArgUpper(args[2], s, f)]])
    [] primitive = "max" ->
         IntervalBound(
           [s \in 1..rows |-> [f \in 1..cols |->
              Max2(ArgLower(args[1], s, f), ArgLower(args[2], s, f))]],
           [s \in 1..rows |-> [f \in 1..cols |->
              Max2(ArgUpper(args[1], s, f), ArgUpper(args[2], s, f))]])
    [] primitive = "reshape" ->
         IntervalBound(
           [s \in 1..rows |-> [f \in 1..cols |-> ArgLower(args[1], s, f)]],
           [s \in 1..rows |-> [f \in 1..cols |-> ArgUpper(args[1], s, f)]])
    [] OTHER -> IntervalBound(Full(rows, cols, -1), Full(rows, cols, 1))

----------------------------------------------------------------------------
(* class RelaxationTransform *)

_relax_input(index, in_bounds) == RelaxVariable(index, in_bounds)

RelaxationTransform_input_transform(index, lower_bound, upper_bound) ==
  _relax_input(index, boundprop_input_transform(index, lower_bound, upper_bound))

RelaxationTransform_primitive_transform(index, primitive, args, params, rows, cols) ==
  _relax_primitive(index,
                   boundprop_primitive_transform(index, primitive, args, rows, cols),
                   primitive, args, params)

----------------------------------------------------------------------------
(* class OptimizedRelaxationTransform *)

_PRIMITIVES_TO_OPTIMIZE_INPUT == {"max"}

(* jnp.reshape of a (rows of t) x (columns of t) array to rows x cols *)
Reshape(t, rows, cols) ==
  [r \in 1..rows |-> [c \in 1..cols |-> Ravel(t)[(r - 1) * cols + c]]]

Objective(nb_targets, target_idx) ==
  [t \in 1..nb_targets |-> IF t - 1 = target_idx THEN 1 ELSE 0]

Negated(objective) == [t \in 1..Len(objective) |-> -objective[t]]

(* sample_ubs.append(neg_ub) without the sign change *)
UpperFromSolveNoSign(neg_ub) == neg_ub

(* sample_ubs.append(-neg_ub) *)
UpperFromSolve(neg_ub) == -neg_ub

(* tightened_variable_bounds.  The solves of one call are numbered in the  *)
(* order of the loops, after `base` earlier solves of the same transform   *)
(* call; the first solve that reports no optimum fails its assertion and   *)
(* ends the call.  The result carries the solvers with the solves made.    *)
SolveNo(base, nb_targets, s, target_idx, which) ==
  base + 2 * nb_targets * (s - 1) + 2 * target_idx + which

(* the answers of every solver to the two solves of every target *)
Solves(svs, variable, answer, base, nb_targets) ==
  [s \in 1..Len(svs) |-> [t \in 1..nb_targets |->
     [lb |-> minimize_objective(svs[s], variable.name,
                                Objective(nb_targets, t - 1), 0, answer,
                                SolveNo(base, nb_targets, s, t - 1, 1)),
      neg_ub |-> minimize_objective(svs[s], variable.name,
                                    Negated(Objective(nb_targets, t - 1)), 0,
                                    answer,
                                    SolveNo(base, nb_targets, s, t - 1, 2))]]]

(* assert optimal_ub left out: only the lower solves are asserted *)
FailedSolvesLowerOnly(solves, base, nb_targets) ==
  {SolveNo(base, nb_targets, p[1], p[2] - 1, 1) :
     p \in {q \in (1..Len(solves)) \X (1..nb_targets) :
              ~solves[q[1]][q[2]].lb.optimal}}

FailedSolves(solves, base, nb_targets) ==
  {SolveNo(base, nb_targets, p[1], p[2] - 1, 1) :
     p \in {q \in (1..Len(solves)) \X (1..nb_targets) :
              ~solves[q[1]][q[2]].lb.optimal}}
  \cup
  {SolveNo(base, nb_targets, p[1], p[2] - 1, 2) :
     p \in {q \in (1..Len(solves)) \X (1..nb_targets) :
              ~solves[q[1]][q[2]].neg_ub.optimal}}

LastSolve(failures, base, nb_targets, nb_solvers) ==
  IF failures = {} THEN base + 2 * nb_targets * nb_solvers
  ELSE CHOOSE n \in failures : \A m \in failures : n <= m

(* the solvers after the solves up to lastSolve *)
Solved(svs, variable, base, nb_targets, lastSolve) ==
  [s \in 1..Len(svs) |->
     [svs[s] EXCEPT !.calls = @ \o Concat(
        [t \in 1..nb_targets |->
           (IF SolveNo(base, nb_targets, s, t - 1, 1) <= lastSolve
            THEN <<MinimizeCall(variable.name, Objective(nb_targets, t - 1))>>
            ELSE <<>>)
           \o
           (IF SolveNo(base, nb_targets, s, t - 1, 2) <= lastSolve
            THEN <<MinimizeCall(variable.name,
                                Negated(Objective(nb_targets, t - 1)))>>
            ELSE <<>>)])]]

TightenedVariable(variable, solves, nb_targets) ==
  set_constraints(
    RelaxVariable(variable.name,
      IntervalBound(
        Reshape([s \in 1..Len(solves) |-> [t \in 1..nb_targets |->
                   solves[s][t].lb.val]],
                Rows(variable.lower), nb_targets),
        Reshape([s \in 1..Len(solves) |-> [t \in 1..nb_targets |->
                   UpperFromSolve(solves[s][t].neg_ub.val)]],
                Rows(variable.lower), nb_targets))),
    variable.constraints)

TightenedResult(solved, variable, solves, failures, nb_targets, lastSolve) ==
  IF failures # {}
  THEN [solvers |-> solved, outcome |-> "AssertionError",
        variable |-> NoVariable, solves |-> lastSolve]
  ELSE IF Len(solves) # Rows(variable.lower)
  THEN [solvers |-> solved, outcome |-> "TypeError",
        variable |-> NoVariable, solves |-> lastSolve]
  ELSE [solvers |-> solved, outcome |-> "ok",
        variable |-> TightenedVariable(variable, solves, nb_targets),
        solves |-> lastSolve]

TightenedFrom(svs, variable, base, nb_targets, solves, failures) ==
  TightenedResult(
    Solved(svs, variable, base, nb_targets,
           LastSolve(failures, base, nb_targets, Len(svs))),
    variable, solves, failures, nb_targets,
    LastSolve(failures, base, nb_targets, Len(svs)))

TightenedWith(svs, variable, base, nb_targets, solves) ==
  TightenedFrom(svs, variable, base, nb_targets, solves,
                FailedSolves(solves, base, nb_targets))

tightened_variable_bounds(svs, variable, answer, base) ==
  TightenedWith(svs, variable, base, Cols(variable.lower),
                Solves(svs, variable, answer, base, Cols(variable.lower)))

(* inp_args = [self.tightened_variable_bounds(inp) if isinstance(inp,      *)
(* RelaxVariable) else inp for inp in args], from argument k on            *)
RECURSIVE TightenArgs(_, _, _, _, _)

KeepArg(arg, rest) == [rest EXCEPT !.inp_args = <<arg>> \o @]

TightenedArg(arg, t, rest) ==
  [rest EXCEPT !.inp_args = <<t.variable>> \o @,
               !.tightened = <<[before |-> arg, after |-> t.variable]>> \o @]

TightenRest(args, k, answer, t) ==
  IF t.outcome # "ok"
  THEN [solvers |-> t.solvers, outcome |-> t.outcome, inp_args |-> <<>>,
        solves |-> t.solves, tightened |-> <<>>]
  ELSE TightenedArg(args[k], t,
                    TightenArgs(t.solvers, args, k + 1, answer, t.solves))

TightenArgs(svs, args, k, answer, base) ==
  IF k > Len(args)
  THEN [solvers |-> svs, outcome |-> "ok", inp_args |-> <<>>, solves |-> base,
        tightened |-> <<>>]
  ELSE IF ~IsRelaxVariable(args[k])
  THEN KeepArg(args[k], TightenArgs(svs, args, k + 1, answer, base))
  ELSE TightenRest(args, k, answer,
                   tightened_variable_bounds(svs, args[k], answer, base))

(* for constraint in out_bounds.constraints: constraint.encode_into_solver *)
RECURSIVE EncodeConstraintsFrom(_, _, _, _)
EncodeConstraintsFrom(solver, constraints, k, minibatch_index) ==
  IF k > Len(constraints) THEN solver
  ELSE EncodeConstraintsFrom(
         encode_into_solver(constraints[k], solver, minibatch_index),
         constraints, k + 1, minibatch_index)

(* the constraints encoded before the variable is declared *)
PushNodeConstraintsFirst(solver, out_bounds, minibatch_index) ==
  create_solver_variable(
    EncodeConstraintsFrom(solver, out_bounds.constraints, 1, minibatch_index),
    out_bounds, minibatch_index)

(* the variable declared again after its constraints *)
PushNodeRedeclares(solver, out_bounds, minibatch_index) ==
  create_solver_variable(
    EncodeConstraintsFrom(
      create_solver_variable(solver, out_bounds, minibatch_index),
      out_bounds.constraints, 1, minibatch_index),
    out_bounds, minibatch_index)

(* the body of the loop over the solvers in primitive_transform *)
PushNode(solver, out_bounds, minibatch_index) ==
  EncodeConstraintsFrom(
    create_solver_variable(solver, out_bounds, minibatch_index),
    out_bounds.constraints, 1, minibatch_index)

(* the loop over the solvers at the end of primitive_transform *)
PushToSolvers(tight, out) ==
  IF out.outcome # "ok"
  THEN [solvers |-> tight.solvers, outcome |-> out.outcome,
        variable |-> NoVariable, tightened |-> tight.tightened,
        solves |-> tight.solves, relaxed |-> TRUE]
  ELSE [solvers |-> [s \in 1..Len(tight.solvers) |->
                       PushNode(tight.solvers[s], out.var, s - 1)],
        outcome |-> "ok", variable |-> out.var,
        tightened |-> tight.tightened, solves |-> tight.solves,
        relaxed |-> TRUE]

(* out_bounds = self._transform.primitive_transform(index, primitive,      *)
(* inp_args), unless the tightening raised                                 *)
RelaxAndPush(tight, index, primitive, params, rows, cols) ==
  IF tight.outcome # "ok"
  THEN [solvers |-> tight.solvers, outcome |-> tight.outcome,
        variable |-> NoVariable, tightened |-> tight.tightened,
        solves |-> tight.solves, relaxed |-> FALSE]
  ELSE PushToSolvers(tight,
         RelaxationTransform_primitive_transform(
           index, primitive, tight.inp_args, params, rows, cols))

OptimizedRelaxationTransform_primitive_transform(svs, index, primitive, args, params, answer, rows, cols) ==
  RelaxAndPush(
    IF primitive \in _PRIMITIVES_TO_OPTIMIZE_INPUT
    THEN TightenArgs(svs, args, 1, answer, 0)
    ELSE [solvers |-> svs, outcome |-> "ok", inp_args |-> args,
          solves |-> 0, tightened |-> <<>>],
    index, primitive, params, rows, cols)

(* if minibatch_index >= len(self.solvers), replaced by: always *)
NeedsNewSolverAlways(minibatch_index, svs) == TRUE

NeedsNewSolver(minibatch_index, svs) == minibatch_index >= Len(svs)

(* the loop of input_transform, from minibatch_index on *)
RECURSIVE InputLoopFrom(_, _, _)
InputLoopFrom(svs, in_bounds, minibatch_index) ==
  IF minibatch_index >= Rows(in_bounds.lower) THEN svs
  ELSE LET grown == IF NeedsNewSolver(minibatch_index, svs)
                    THEN Append(svs, solver_ctor) ELSE svs
       IN InputLoopFrom(
            [grown EXCEPT ![minibatch_index + 1] =
               create_solver_variable(@, in_bounds, minibatch_index)],
            in_bounds, minibatch_index + 1)

OptimizedRelaxationTransform_input_transform(svs, index, lower_bound, upper_bound) ==
  LET in_bounds == RelaxationTransform_input_transform(index, lower_bound, upper_bound)
  IN [solvers |-> InputLoopFrom(svs, in_bounds, 0), variable |-> in_bounds]

----------------------------------------------------------------------------
(* Specification of a traversal: the driver calls input_transform and      *)
(* primitive_transform of one OptimizedRelaxationTransform, node after     *)
(* node with fresh node identifiers, until a call raises.  Every node of a *)
(* traversal has the shape (batch, feat).                                  *)

TraversalPrimitives == {"reshape", "add", "max", "tanh"}

TraversalIntervals == {<<-1, 2>>, <<-2, 0>>}

TraversalConstants == {Full(1, feat, 0), Full(1, feat, 2)}

(* argument lists: the latest variable alone, with a constant on either    *)
(* side, or with any earlier variable                                      *)
TraversalArgs(primitive) ==
  LET latest == env[Len(env)]
  IN IF primitive \in {"reshape", "tanh"}
     THEN {<<env[k]>> : k \in 1..Len(env)}
     ELSE {<<latest, TensorArg(c)>> : c \in TraversalConstants}
          \cup {<<TensorArg(c), latest>> : c \in TraversalConstants}
          \cup {<<latest, env[k]>> : k \in 1..Len(env)}

NbVariables(args) ==
  Cardinality({k \in 1..Len(args) : IsRelaxVariable(args[k])})

(* the solver's answers to the solves of one transform call: every solve   *)
(* reports an optimum (failAt 0), or the first lower solve, the first      *)
(* upper solve or the last solve of the call does not                      *)
Answers(primitive, args) ==
  IF primitive \in _PRIMITIVES_TO_OPTIMIZE_INPUT
  THEN [shrink : {0, 1},
        failAt : {0, 1, 2, 2 * feat * Len(solvers) * NbVariables(args)}]
  ELSE {[shrink |-> 0, failAt |-> 0]}

Init ==
  /\ batch \in 1..MaxBatch
  /\ feat \in 1..MaxFeat
  /\ solvers = <<>>
  /\ env = <<>>
  /\ nextIndex = 0
  /\ status = "running"
  /\ last = [op |-> "none", ops |-> <<>>, tightened |-> <<>>, solves |-> 0,
             relaxed |-> FALSE, primitive |-> "none", args |-> <<>>,
             failAt |-> 0]
  /\ IdleRule
  /\ IdleLC

InputReturns(r) ==
  /\ solvers' = r.solvers
  /\ env' = Append(env, r.variable)
  /\ nextIndex' = nextIndex + 1
  /\ last' = [op |-> "input_transform", ops |-> Append(last.ops, "input"),
              tightened |-> <<>>, solves |-> 0, relaxed |-> FALSE,
              primitive |-> "none", args |-> <<>>, failAt |-> 0]

InputTransform ==
  /\ status = "running"
  /\ nextIndex < MaxNodes
  /\ \E interval \in TraversalIntervals :
       InputReturns(
         OptimizedRelaxationTransform_input_transform(
           solvers, nextIndex,
           BoundOf(batch, feat, interval[1], interval[2]).lower,
           BoundOf(batch, feat, interval[1], interval[2]).upper))
  /\ UNCHANGED <<batch, feat, status, ruleVars, lcVars>>

PrimitiveReturns(primitive, args, answer, r) ==
  /\ solvers' = r.solvers
  /\ status' = IF r.outcome = "ok" THEN "running" ELSE r.outcome
  /\ env' = IF r.outcome = "ok" THEN Append(env, r.variable) ELSE env
  /\ nextIndex' = IF r.outcome = "ok" THEN nextIndex + 1 ELSE nextIndex
  /\ last' = [op |-> "primitive_transform",
              ops |-> IF r.outcome = "ok"
                      THEN Append(last.ops, primitive) ELSE last.ops,
              tightened |-> r.tightened, solves |-> r.solves,
              relaxed |-> r.relaxed, primitive |-> primitive, args |-> args,
              failAt |-> answer.failAt]

PrimitiveTransform ==
  /\ status = "running"
  /\ nextIndex < MaxNodes
  /\ env # <<>>
  /\ \E primitive \in TraversalPrimitives :
       \E args \in TraversalArgs(primitive) :
         \E answer \in Answers(primitive, args) :
           PrimitiveReturns(primitive, args, answer,
             OptimizedRelaxationTransform_primitive_transform(
               solvers, nextIndex, primitive, args, 0, answer, batch, feat))
  /\ UNCHANGED <<batch, feat, ruleVars, lcVars>>

Next == InputTransform \/ PrimitiveTransform

Spec == Init /\ [][Next]_vars

----------------------------------------------------------------------------
(* Properties of the traversal *)

DeclarationCall(node, minibatch_index) ==
  [op |-> "create_solver_variable", name |-> node.name,
   index |-> minibatch_index, lower |-> node.lower[minibatch_index + 1],
   upper |-> node.upper[minibatch_index + 1]]

ConstraintCalls(constraint, minibatch_index) ==
  IF constraint.type = "LinearConstraint"
  THEN <<[op |-> "create_linear_solver_constraint",
          constraint |-> constraint, index |-> minibatch_index]>>
  ELSE [k \in 1..Len(constraint.scale[minibatch_index + 1]) |->
          [op |-> "create_activation_solver_constraint",
           outvar |-> constraint.outvar, invar |-> constraint.invar,
           sense |-> constraint.sense, act_index |-> k - 1,
           slope |-> constraint.scale[minibatch_index + 1][k],
           bias |-> constraint.bias[minibatch_index + 1][k]]]

NodeCalls(node, minibatch_index) ==
  <<DeclarationCall(node, minibatch_index)>>
  \o Concat([k \in 1..Len(node.constraints) |->
               ConstraintCalls(node.constraints[k], minibatch_index)])

Encoding(solver) ==
  SelectSeq(solver.calls, LAMBDA c : c.op # "minimize_objective")

(* C7: what every solver has been told, the solves apart, is exactly: for  *)
(* every node processed so far, in the order of processing, the node's     *)
(* declaration with the solver's own sample index followed by each of the  *)
(* node's constraints in list order.                                       *)
C7_EveryNodePushed ==
  \A s \in 1..Len(solvers) :
    Encoding(solvers[s]) =
      Concat([n \in 1..Len(env) |-> NodeCalls(env[n], s - 1)])

(* a node with several constraints has just been pushed to several solvers *)
C7_Witness ==
  /\ last.op = "primitive_transform"
  /\ last.relaxed
  /\ status = "running"
  /\ Len(solvers) > 1
  /\ Len(env[Len(env)].constraints) > 1

(* C8: on the solver of a sample every node is declared at most once,      *)
(* with that sample's index and the bound the node was returned with; a    *)
(* tightened variable is never declared.                                   *)
C8_DeclaredOnce ==
  \A s \in 1..Len(solvers) :
    /\ \A n \in 1..Len(env) :
         /\ Len(DeclarationsOf(solvers[s], env[n].name)) <= 1
         /\ \A k \in 1..Len(DeclarationsOf(solvers[s], env[n].name)) :
              DeclarationsOf(solvers[s], env[n].name)[k] =
                DeclarationCall(env[n], s - 1)
    /\ \A k \in 1..Len(solvers[s].calls) :
         solvers[s].calls[k].op = "create_solver_variable" =>
           \E n \in 1..Len(env) : env[n].name = solvers[s].calls[k].name

StrictlyTighter(pair) ==
  \E s \in 1..Len(pair.before.lower) :
    \E f \in 1..Len(pair.before.lower[s]) :
      \/ pair.before.lower[s][f] < pair.after.lower[s][f]
      \/ pair.after.upper[s][f] < pair.before.upper[s][f]

(* an argument was tightened strictly and the activation node was pushed *)
C8_Witness ==
  /\ last.op = "primitive_transform"
  /\ status = "running"
  /\ last.relaxed
  /\ \E k \in 1..Len(last.tightened) : StrictlyTighter(last.tightened[k])

(* C9: the variable returned by tightened_variable_bounds has the          *)
(* argument's name and constraint list, and for every sample and feature   *)
(* its interval lies within the argument's interval.                       *)
C9_TighteningNeverWidens ==
  \A k \in 1..Len(last.tightened) :
    LET before == last.tightened[k].before
        after == last.tightened[k].after
    IN /\ after.name = before.name
       /\ after.constraints = before.constraints
       /\ Len(after.lower) = Len(before.lower)
       /\ \A s \in 1..Len(before.lower) :
            /\ Len(after.lower[s]) = Len(before.lower[s])
            /\ \A f \in 1..Len(before.lower[s]) :
                 /\ before.lower[s][f] <= after.lower[s][f]
                 /\ after.upper[s][f] <= before.upper[s][f]

(* a variable with constraints was tightened strictly at both ends *)
C9_Witness ==
  \E k \in 1..Len(last.tightened) :
    /\ last.tightened[k].before.constraints # <<>>
    /\ \E s \in 1..Len(last.tightened[k].before.lower) :
         \E f \in 1..Len(last.tightened[k].before.lower[s]) :
           /\ last.tightened[k].before.lower[s][f]
                < last.tightened[k].after.lower[s][f]
           /\ last.tightened[k].after.upper[s][f]
                < last.tightened[k].before.upper[s][f]

(* the solves one call of tightened_variable_bounds makes on one solver *)
TighteningSolves(variable) ==
  Concat([t \in 1..Cols(variable.lower) |->
            <<MinimizeCall(variable.name, Objective(Cols(variable.lower), t - 1)),
              MinimizeCall(variable.name,
                           Negated(Objective(Cols(variable.lower), t - 1)))>>])

(* the solves of a max node on one solver: those of every RelaxVariable    *)
(* argument, in the order of the arguments                                 *)
NodeSolves(args) ==
  Concat([k \in 1..Len(args) |->
            IF IsRelaxVariable(args[k]) THEN TighteningSolves(args[k])
            ELSE <<>>])

MaxNodeHandled ==
  /\ last'.op = "primitive_transform"
  /\ last'.primitive \in _PRIMITIVES_TO_OPTIMIZE_INPUT

(* C11: a call of primitive_transform on a max node in which every solve   *)
(* reports an optimum makes on every solver exactly the two solves (the    *)
(* one-hot objective, then its negation) of every feature of every         *)
(* RelaxVariable argument, and only then invokes the wrapped transform     *)
(* and declares the node; a call in which a solve reports no optimum ends  *)
(* with the failed assertion, does not invoke the wrapped transform, makes *)
(* no solve other than those ones and declares nothing in any solver.      *)
C11_TighteningSolvesThenRelax ==
  [][MaxNodeHandled =>
       /\ Len(solvers') = Len(solvers)
       /\ last'.failAt = 0 =>
            /\ last'.relaxed
            /\ \A s \in 1..Len(solvers) :
                 solvers'[s].calls =
                   solvers[s].calls \o NodeSolves(last'.args)
                   \o (IF status' = "running"
                       THEN NodeCalls(env'[Len(env')], s - 1) ELSE <<>>)
       /\ last'.failAt # 0 =>
            /\ status' = "AssertionError"
            /\ ~last'.relaxed
            /\ env' = env
            /\ \A s \in 1..Len(solvers) :
                 /\ Encoding(solvers'[s]) = Encoding(solvers[s])
                 /\ Len(solvers'[s].calls) <=
                      Len(solvers[s].calls) + Len(NodeSolves(last'.args))
                 /\ solvers'[s].calls =
                      SubSeq(solvers[s].calls \o NodeSolves(last'.args),
                             1, Len(solvers'[s].calls))]_vars

(* a solve of the second solver reported no optimum after the first        *)
(* solver's solves had all been made                                       *)
C11_Witness ==
  /\ status = "AssertionError"
  /\ last.primitive \in _PRIMITIVES_TO_OPTIMIZE_INPUT
  /\ last.failAt > 2
  /\ last.solves = last.failAt
  /\ Len(solvers) > 1
  /\ ~last.relaxed

====
